---- MODULE Spec2Model ----
(***************************************************************************)
(* minidot.py: a wrapper script that concatenates FASTA files, runs an     *)
(* aligner on the concatenation and hands the alignments to a renderer.    *)
(*                                                                         *)
(* Strings are sequences of tokens ("a", ".", "fa", "/", ...), so that     *)
(* str.split('.') and os.path.basename are computed, not assumed.  A file  *)
(* is a sequence of lines, a line a string.  The script is one sequential  *)
(* process; pc is the statement it is about to execute.                    *)
(***************************************************************************)
EXTENDS Integers, Sequences, FiniteSets, TLC

\* ------------------------------------------------------------------ bounds
MaxFiles == 2    \* FASTA arguments on the command line
MaxRefs == 2     \* sequences in one input FASTA file
BufSize == 3     \* lines the larger of the two write buffers holds

\* ----------------------------------------------------------------- strings
Dot == "."
Slash == "/"

Min(S) == CHOOSE x \in S : \A y \in S : x <= y
Max(S) == CHOOSE x \in S : \A y \in S : x >= y

\* s.split(c)[0]
SplitHead(s, c) ==
    LET idx == {k \in 1..Len(s) : s[k] = c}
    IN  IF idx = {} THEN s ELSE SubSeq(s, 1, Min(idx) - 1)

\* os.path.basename(p)
OsPathBasename(p) ==
    LET idx == {k \in 1..Len(p) : p[k] = Slash}
    IN  IF idx = {} THEN p ELSE SubSeq(p, Max(idx) + 1, Len(p))

Digit == <<"0", "1", "2", "3", "4", "5", "6", "7", "8", "9">>

\* "%s" % n for an int n >= 0
RECURSIVE PyStr(_)
PyStr(n) == IF n < 10 THEN <<Digit[n + 1]>>
            ELSE PyStr(n \div 10) \o <<Digit[(n % 10) + 1]>>

\* "".join(list)
RECURSIVE Join(_)
Join(list) == IF list = <<>> THEN <<>> ELSE Head(list) \o Join(Tail(list))

\* ------------------------------------------------------------ the FASTA reader
IsHeader(line) == IF line = <<>> THEN FALSE ELSE line[1] = ">"

\* pysam.FastaFile(path) raises unless the text starts with a header line
FaOk(lines) == IF lines = <<>> THEN TRUE ELSE IsHeader(lines[1])

\* fasta_fh.fetch(reference) for each of fasta_fh.references, in file order:
\* the lines between one header and the next, joined
RECURSIVE FaRecords(_)
FaRecords(lines) ==
    IF lines = <<>> THEN <<>>
    ELSE LET init == FaRecords(SubSeq(lines, 1, Len(lines) - 1))
             l == lines[Len(lines)]
         IN  IF IsHeader(l) THEN Append(init, <<>>)
             ELSE IF init = <<>> THEN init
             ELSE [init EXCEPT ![Len(init)] = @ \o l]

\* --------------------------------------------------------------- the inputs
SeqOfLen(n) == [j \in 1..n |-> IF j % 2 = 1 THEN "A" ELSE "C"]

\* a FASTA text of n records; record j holds a sequence of n-j+1 bases
RECURSIVE FastaText(_, _)
FastaText(n, j) ==
    IF j > n THEN <<>>
    ELSE << <<">", "r">> \o PyStr(j), SeqOfLen(n - j + 1) >> \o FastaText(n, j + 1)

Absent == [exists |-> FALSE, lines |-> <<>>]
File(lines) == [exists |-> TRUE, lines |-> lines]
Junk == File(<< <<"junk">> >>)

Contents == {Absent, Junk} \cup {File(FastaText(n, 1)) : n \in 0..MaxRefs}

InputPaths == { <<"a", ".", "fa">>,
                <<"d", ".", "x", "/", "b", ".", "fa", ".", "gz">>,
                <<"a", ".", "paf">> }

Outputs == { <<"a", ".", "pdf">>, <<"d", ".", "x", "/", "o", ".", "pdf">> }

Derived(out) == LET p == SplitHead(out, Dot) \o <<Dot>>
                IN  {p \o <<"fa">>, p \o <<"tlen">>, p \o <<"paf">>}

AllPaths == InputPaths \cup Outputs \cup UNION {Derived(o) : o \in Outputs}

SeqsUpTo(S, n) == UNION {[1..k -> S] : k \in 1..n}

\* ----------------------------------------------------------- the command line
NotGiven == [given |-> FALSE, value |-> <<>>]
Given(v) == [given |-> TRUE, value |-> v]

None == [none |-> TRUE, s |-> <<>>]
Some(v) == [none |-> FALSE, s |-> v]
Truthy(v) == ~v.none /\ v.s # <<>>

NoOptions == [mapper |-> NotGiven, mode |-> NotGiven, width |-> NotGiven,
              thick |-> NotGiven, title |-> NotGiven, identity |-> NotGiven,
              no_self |-> FALSE, strip |-> FALSE]

OptionSets ==
    [mapper : {NotGiven, Given(<<"mm2">>)},
     mode : {NotGiven, Given(<<"map-ont">>)},
     width : {NotGiven, Given(<<>>), Given(<<"30">>)},
     thick : {NotGiven, Given(<<"3">>)},
     title : {NotGiven, Given(<<>>), Given(<<"My Plot">>)},
     identity : {NotGiven, Given(<<"0", ".", "5">>)},
     no_self : BOOLEAN,
     strip : BOOLEAN]

Renderer == <<"minidot", ".", "R">>

\* one option of parser.add_argument(..., default=d)
Arg(opt, d) == IF opt.given THEN Some(opt.value) ELSE d

\* parser.parse_args()
ParseArgs(c) ==
    [minidotr |-> c.minidotr, output |-> c.output, fasta |-> c.fasta,
     mapper |-> Arg(c.opts.mapper, Some(<<"minimap2">>)),
     mode |-> Arg(c.opts.mode, Some(<<"asm10">>)),
     width |-> Arg(c.opts.width, Some(<<"20">>)),
     thick |-> Arg(c.opts.thick, Some(<<"2">>)),
     title |-> Arg(c.opts.title, None),
     no_self |-> c.opts.no_self,
     strip |-> c.opts.strip,
     identity |-> Arg(c.opts.identity, Some(<<"0", ".", "0">>))]

VARIABLES
    cmd,           \* the command line
    args,          \* the argparse namespace
    fs,            \* the file system: path -> [exists, lines]
    orig,          \* the file system before the run
    pc,            \* the statement about to run
    super_fasta,   \* lines written to super_fasta and not yet on disk
    tlen,          \* lines written to tlen and not yet on disk
    i,             \* index of the current FASTA argument
    refs,          \* the sequences of fasta_fh, in the order of fasta_fh.references
    r,             \* index of the current reference
    join_seq,
    Rargs,
    stdout,        \* what print() wrote
    mapperCalls,   \* the call() of line 45, with how it ended
    rendererCalls, \* the call() of line 63, with how it ended
    exit_code,     \* the exit code of the script, -1 while it runs
    wlog,          \* every write() so far: which handle, for which argument, the lines
    rlog,          \* what each pysam.FastaFile() so far yielded
    readers,       \* the artifacts a child process has started to read
    lateWrites,    \* the artifacts that reached the disk after their reader started
    bufsize        \* lines a write buffer holds before it spills to disk

vars == <<cmd, args, fs, orig, pc, super_fasta, tlen, i, refs, r, join_seq, Rargs,
          stdout, mapperCalls, rendererCalls, exit_code, wlog, rlog, readers,
          lateWrites, bufsize>>

\* line 25
prefix == SplitHead(args.output, Dot) \o <<Dot>>
PFa == prefix \o <<"fa">>
PTlen == prefix \o <<"tlen">>
PPaf == prefix \o <<"paf">>

\* the name taken from the whole path, os.path.basename forgotten
basenameOfPath == SplitHead(args.fasta[i], Dot)

\* line 34
basename == SplitHead(OsPathBasename(args.fasta[i]), Dot)

\* ------------------------------------------------------------- buffered files
\* handle.write(text): what spills to disk now, and what stays in the buffer.
\* Text that fits is buffered; otherwise the buffer is written out first, and
\* text larger than the whole buffer follows it to disk at once.
BufWrite(pending, text) ==
    IF Len(pending) + Len(text) <= bufsize
    THEN [out |-> <<>>, pending |-> pending \o text]
    ELSE IF Len(text) > bufsize
         THEN [out |-> pending \o text, pending |-> <<>>]
         ELSE [out |-> pending, pending |-> text]

\* open(path, "w")
Truncate(f, path) == [f EXCEPT ![path] = File(<<>>)]

\* buffered lines reaching the file
FlushTo(f, path, out) ==
    IF out = <<>> THEN f ELSE [f EXCEPT ![path] = File(f[path].lines \o out)]

Late(path, out) == IF out # <<>> /\ path \in readers THEN {path} ELSE {}

\* the interpreter shuts down: the handles still open are flushed and closed
AtExit(f) == FlushTo(FlushTo(f, PFa, super_fasta), PTlen, tlen)

\* an exception handler that removes the partial artifacts before the script ends
RaiseCleanup ==
    /\ pc' = "aborted"
    /\ exit_code' = 1
    /\ fs' = [fs EXCEPT ![PFa] = Absent, ![PTlen] = Absent]
    /\ lateWrites' = lateWrites
    /\ super_fasta' = <<>>
    /\ tlen' = <<>>

\* an uncaught exception ends the script
Raise ==
    /\ pc' = "aborted"
    /\ exit_code' = 1
    /\ fs' = AtExit(fs)
    /\ lateWrites' = lateWrites \cup Late(PFa, super_fasta) \cup Late(PTlen, tlen)
    /\ super_fasta' = <<>>
    /\ tlen' = <<>>

\* ------------------------------------------------------------------- Init
Fresh(c, f) ==
    /\ bufsize \in {1, BufSize}
    /\ cmd = c
    /\ args = ParseArgs(c)
    /\ fs = f
    /\ orig = f
    /\ pc = "L30"
    /\ super_fasta = <<>>
    /\ tlen = <<>>
    /\ i = 1
    /\ refs = <<>>
    /\ r = 1
    /\ join_seq = <<>>
    /\ Rargs = <<>>
    /\ stdout = <<>>
    /\ mapperCalls = <<>>
    /\ rendererCalls = <<>>
    /\ exit_code = -1
    /\ wlog = <<>>
    /\ rlog = <<>>
    /\ readers = {}
    /\ lateWrites = {}

\* the files named on the command line hold anything; no other file exists
FileSystems(fasta) ==
    LET named == {fasta[k] : k \in 1..Len(fasta)}
    IN  {[p \in AllPaths |-> IF p \in named THEN c[p] ELSE Absent] :
            c \in [named -> Contents]}

\* any files, no option given
InitFiles ==
    \E out \in Outputs, fasta \in SeqsUpTo(InputPaths, MaxFiles) :
        \E f \in FileSystems(fasta) :
            Fresh([minidotr |-> Renderer, output |-> out, fasta |-> fasta,
                   opts |-> NoOptions], f)

\* any options, one good file
InitOptions ==
    \E o \in OptionSets :
        LET fasta == << <<"d", ".", "x", "/", "b", ".", "fa", ".", "gz">> >>
        IN  Fresh([minidotr |-> Renderer, output |-> <<"a", ".", "pdf">>,
                   fasta |-> fasta, opts |-> o],
                  [p \in AllPaths |-> IF p = fasta[1] THEN File(FastaText(1, 1))
                                      ELSE Absent])

Init == InitFiles \/ InitOptions

\* ---------------------------------------------------------------- the script
\* line 30: super_fasta = open(prefix+'fa', "w")
OpenSuperFasta ==
    /\ pc = "L30"
    /\ fs' = Truncate(fs, PFa)
    /\ super_fasta' = <<>>
    /\ pc' = "L31"
    /\ UNCHANGED <<bufsize, cmd, args, orig, tlen, i, refs, r, join_seq, Rargs, stdout,
                   mapperCalls, rendererCalls, exit_code, wlog, rlog, readers,
                   lateWrites>>

\* line 31: tlen = open(prefix+"tlen", "w")
OpenTlen ==
    /\ pc = "L31"
    /\ fs' = Truncate(fs, PTlen)
    /\ tlen' = <<>>
    /\ pc' = "L32"
    /\ UNCHANGED <<bufsize, cmd, args, orig, super_fasta, i, refs, r, join_seq, Rargs, stdout,
                   mapperCalls, rendererCalls, exit_code, wlog, rlog, readers,
                   lateWrites>>

\* lines 32-35: the next FASTA argument opens
OpenFasta ==
    /\ pc = "L32"
    /\ i <= Len(args.fasta)
    /\ LET f == fs[args.fasta[i]]
       IN  /\ f.exists
           /\ FaOk(f.lines)
           /\ refs' = FaRecords(f.lines)
           /\ rlog' = Append(rlog, [i |-> i, seqs |-> FaRecords(f.lines)])
    /\ join_seq' = <<>>
    /\ r' = 1
    /\ pc' = "L36"
    /\ UNCHANGED <<bufsize, cmd, args, fs, orig, super_fasta, tlen, i, Rargs, stdout,
                   mapperCalls, rendererCalls, exit_code, wlog, readers, lateWrites>>

\* line 35: pysam.FastaFile(fasta) raises: the file is missing or is no FASTA
\* (an empty file opens with no reference or raises, as the library decides)
OpenFastaFails ==
    /\ pc = "L32"
    /\ i <= Len(args.fasta)
    /\ LET f == fs[args.fasta[i]]
       IN  ~(f.exists /\ FaOk(f.lines) /\ f.lines # <<>>)
    /\ Raise
    /\ UNCHANGED <<bufsize, cmd, args, orig, i, refs, r, join_seq, Rargs, stdout,
                   mapperCalls, rendererCalls, wlog, rlog, readers>>

\* lines 36-39: one reference is fetched and its length row written
FetchReference ==
    /\ pc = "L36"
    /\ r <= Len(refs)
    /\ LET seq == refs[r]
           row == << basename \o <<"\t">> \o PyStr(Len(seq)) >>
           w == BufWrite(tlen, row)
       IN  /\ join_seq' = Append(join_seq, seq)
           /\ tlen' = w.pending
           /\ fs' = FlushTo(fs, PTlen, w.out)
           /\ lateWrites' = lateWrites \cup Late(PTlen, w.out)
           /\ wlog' = Append(wlog, [h |-> "tlen", i |-> i, lines |-> row])
    /\ r' = r + 1
    /\ UNCHANGED <<bufsize, cmd, args, orig, pc, super_fasta, i, refs, Rargs, stdout,
                   mapperCalls, rendererCalls, exit_code, rlog, readers>>

\* line 40: the entry of this file is written
WriteEntry ==
    /\ pc = "L36"
    /\ r > Len(refs)
    /\ LET entry == << <<">">> \o basename, Join(join_seq) >>
           w == BufWrite(super_fasta, entry)
       IN  /\ super_fasta' = w.pending
           /\ fs' = FlushTo(fs, PFa, w.out)
           /\ lateWrites' = lateWrites \cup Late(PFa, w.out)
           /\ wlog' = Append(wlog, [h |-> "fa", i |-> i, lines |-> entry])
    /\ i' = i + 1
    /\ pc' = "L32"
    /\ UNCHANGED <<bufsize, cmd, args, orig, tlen, refs, r, join_seq, Rargs, stdout,
                   mapperCalls, rendererCalls, exit_code, rlog, readers>>

\* line 42: tlen.close(), once the loop is over
CloseTlen ==
    /\ pc = "L32"
    /\ i > Len(args.fasta)
    /\ fs' = FlushTo(fs, PTlen, tlen)
    /\ lateWrites' = lateWrites \cup Late(PTlen, tlen)
    /\ tlen' = <<>>
    /\ pc' = "L44"
    /\ UNCHANGED <<bufsize, cmd, args, orig, super_fasta, i, refs, r, join_seq, Rargs, stdout,
                   mapperCalls, rendererCalls, exit_code, wlog, rlog, readers>>

\* line 44: paf = open(prefix+"paf", "w")
OpenPaf ==
    /\ pc = "L44"
    /\ fs' = Truncate(fs, PPaf)
    /\ pc' = "L45"
    /\ UNCHANGED <<bufsize, cmd, args, orig, super_fasta, tlen, i, refs, r, join_seq, Rargs,
                   stdout, mapperCalls, rendererCalls, exit_code, wlog, rlog, readers,
                   lateWrites>>

\* the aligner given the alignment file as its second sequence file
MapperArgvPaf ==
    <<args.mapper.s, <<"-x">>, args.mode.s, <<"--no-long-join">>, <<"--dual=yes">>,
      <<"-P">>, PFa, PPaf>>

MapperArgv ==
    <<args.mapper.s, <<"-x">>, args.mode.s, <<"--no-long-join">>, <<"--dual=yes">>,
      <<"-P">>, PFa, PFa>>

\* what the aligner leaves on its stdout
MapperOutput(status) == IF status = 0 THEN << <<"alignments">> >> ELSE <<>>

\* check_call in place of call: a non-zero exit of the aligner raises
CallMapperChecked ==
    /\ pc = "L45"
    /\ \E status \in {0, 1} :
        /\ mapperCalls' = Append(mapperCalls,
              [argv |-> MapperArgv, stdout |-> PPaf, spawned |-> TRUE,
               status |-> status, read |-> fs[PFa].lines, unflushed |-> super_fasta])
        /\ IF status = 0
           THEN /\ fs' = FlushTo(fs, PPaf, MapperOutput(status))
                /\ pc' = "L46"
                /\ UNCHANGED <<super_fasta, tlen, exit_code, lateWrites>>
           ELSE Raise
    /\ readers' = readers \cup {PFa}
    /\ UNCHANGED <<bufsize, cmd, args, orig, i, refs, r, join_seq, Rargs,
                   stdout, rendererCalls, wlog, rlog>>

\* line 45: call([...], stdout=paf): the aligner runs to its end
CallMapper ==
    /\ pc = "L45"
    /\ \E status \in {0, 1} :
        /\ mapperCalls' = Append(mapperCalls,
              [argv |-> MapperArgv, stdout |-> PPaf, spawned |-> TRUE,
               status |-> status, read |-> fs[PFa].lines, unflushed |-> super_fasta])
        /\ fs' = FlushTo(fs, PPaf, MapperOutput(status))
    /\ readers' = readers \cup {PFa}
    /\ pc' = "L46"
    /\ UNCHANGED <<bufsize, cmd, args, orig, super_fasta, tlen, i, refs, r, join_seq, Rargs,
                   stdout, rendererCalls, exit_code, wlog, rlog, lateWrites>>

\* line 45: the aligner binary cannot be started, call() raises OSError
CallMapperFails ==
    /\ pc = "L45"
    /\ mapperCalls' = Append(mapperCalls,
          [argv |-> MapperArgv, stdout |-> PPaf, spawned |-> FALSE,
           status |-> -1, read |-> <<>>, unflushed |-> super_fasta])
    /\ Raise
    /\ UNCHANGED <<bufsize, cmd, args, orig, i, refs, r, join_seq, Rargs, stdout,
                   rendererCalls, wlog, rlog, readers>>

\* line 46: paf.close(); the script wrote nothing to paf itself
ClosePaf ==
    /\ pc = "L46"
    /\ pc' = "L48"
    /\ UNCHANGED <<bufsize, cmd, args, fs, orig, super_fasta, tlen, i, refs, r, join_seq, Rargs,
                   stdout, mapperCalls, rendererCalls, exit_code, wlog, rlog, readers,
                   lateWrites>>

\* the valued options tested with "is not None" in place of their truth value
RenderArgsNotNone(a) ==
    <<<<"-i">>, PPaf, <<"-l">>, PTlen, <<"-o">>, a.output>>
    \o (IF a.no_self THEN <<<<"--no-self">>>> ELSE <<>>)
    \o (IF a.strip THEN <<<<"--strip">>>> ELSE <<>>)
    \o (IF ~a.title.none THEN <<<<"--title">>, a.title.s>> ELSE <<>>)
    \o (IF ~a.width.none THEN <<<<"--width">>, a.width.s>> ELSE <<>>)
    \o (IF ~a.thick.none THEN <<<<"--thick">>, a.thick.s>> ELSE <<>>)
    \o (IF ~a.identity.none THEN <<<<"--identity">>, a.identity.s>> ELSE <<>>)

\* lines 48-60
RenderArgs(a) ==
    <<<<"-i">>, PPaf, <<"-l">>, PTlen, <<"-o">>, a.output>>
    \o (IF a.no_self THEN <<<<"--no-self">>>> ELSE <<>>)
    \o (IF a.strip THEN <<<<"--strip">>>> ELSE <<>>)
    \o (IF Truthy(a.title) THEN <<<<"--title">>, a.title.s>> ELSE <<>>)
    \o (IF Truthy(a.width) THEN <<<<"--width">>, a.width.s>> ELSE <<>>)
    \o (IF Truthy(a.thick) THEN <<<<"--thick">>, a.thick.s>> ELSE <<>>)
    \o (IF Truthy(a.identity) THEN <<<<"--identity">>, a.identity.s>> ELSE <<>>)

\* lines 48-62: Rargs is built and printed
BuildRargs ==
    /\ pc = "L48"
    /\ Rargs' = RenderArgs(args)
    /\ stdout' = Append(stdout, RenderArgs(args))
    /\ pc' = "L63"
    /\ UNCHANGED <<bufsize, cmd, args, fs, orig, super_fasta, tlen, i, refs, r, join_seq,
                   mapperCalls, rendererCalls, exit_code, wlog, rlog, readers,
                   lateWrites>>

\* what the renderer leaves in the output file
RendererOutput(status) == IF status = 0 THEN << <<"plot">> >> ELSE <<>>

\* line 63: call([args.minidotr] + Rargs): the renderer runs to its end
CallRenderer ==
    /\ pc = "L63"
    /\ \E status \in {0, 1, 2} :
        /\ rendererCalls' = Append(rendererCalls,
              [argv |-> <<args.minidotr>> \o Rargs, spawned |-> TRUE,
               status |-> status])
        /\ fs' = FlushTo(fs, args.output, RendererOutput(status))
    /\ readers' = readers \cup {PPaf, PTlen}
    /\ pc' = "end"
    /\ UNCHANGED <<bufsize, cmd, args, orig, super_fasta, tlen, i, refs, r, join_seq, Rargs,
                   stdout, mapperCalls, exit_code, wlog, rlog, lateWrites>>

\* line 63: the renderer cannot be started, call() raises OSError
CallRendererFails ==
    /\ pc = "L63"
    /\ rendererCalls' = Append(rendererCalls,
          [argv |-> <<args.minidotr>> \o Rargs, spawned |-> FALSE, status |-> -1])
    /\ Raise
    /\ UNCHANGED <<bufsize, cmd, args, orig, i, refs, r, join_seq, Rargs, stdout,
                   mapperCalls, wlog, rlog, readers>>

\* sys.exit(call(...)): the renderer's status handed on
ScriptExitStatus(status) == status

\* the exit code of a script that runs off its end: the value call() returned
\* on line 63 is dropped
ScriptExit(status) == 0

\* the end of the file: the interpreter shuts down
Exit ==
    /\ pc = "end"
    /\ exit_code' = ScriptExit(rendererCalls[Len(rendererCalls)].status)
    /\ fs' = AtExit(fs)
    /\ lateWrites' = lateWrites \cup Late(PFa, super_fasta) \cup Late(PTlen, tlen)
    /\ super_fasta' = <<>>
    /\ tlen' = <<>>
    /\ pc' = "done"
    /\ UNCHANGED <<bufsize, cmd, args, orig, i, refs, r, join_seq, Rargs, stdout,
                   mapperCalls, rendererCalls, wlog, rlog, readers>>

Next ==
    \/ OpenSuperFasta
    \/ OpenTlen
    \/ OpenFasta
    \/ OpenFastaFails
    \/ FetchReference
    \/ WriteEntry
    \/ CloseTlen
    \/ OpenPaf
    \/ CallMapper
    \/ CallMapperFails
    \/ ClosePaf
    \/ BuildRargs
    \/ CallRenderer
    \/ CallRendererFails
    \/ Exit

Spec == Init /\ [][Next]_vars

TypeOK ==
    /\ pc \in {"L30", "L31", "L32", "L36", "L44", "L45", "L46", "L48", "L63", "end",
               "done", "aborted"}
    /\ i \in 1..(MaxFiles + 1)
    /\ exit_code \in {-1, 0, 1}

\* ============================================================== the claims
\* helpers that state the claims from the command line and the files as the
\* user gave them, not from the script's own variables

N == Len(cmd.fasta)

\* p[a..b] is p's basename cut at its first dot: p = dir name rest, dir empty
\* or ending in a slash, no slash after dir, no dot in name, rest empty or
\* starting with a dot
IsNameAt(a, b, p) ==
    /\ a = 1 \/ p[a - 1] = Slash
    /\ \A k \in a..Len(p) : p[k] # Slash
    /\ \A k \in a..b : p[k] # Dot
    /\ b = Len(p) \/ p[b + 1] = Dot

NameOf(p) ==
    LET ab == CHOOSE ab \in (1..(Len(p) + 1)) \X (0..Len(p)) :
                  ab[2] >= ab[1] - 1 /\ IsNameAt(ab[1], ab[2], p)
    IN  SubSeq(p, ab[1], ab[2])

\* P is the part of the output path before its first dot
IsPrefixOf(P, out) ==
    /\ Len(P) <= Len(out)
    /\ P = SubSeq(out, 1, Len(P))
    /\ \A k \in 1..Len(P) : P[k] # Dot
    /\ Len(P) = Len(out) \/ out[Len(P) + 1] = Dot

OutPrefix == CHOOSE P \in {SubSeq(cmd.output, 1, k) : k \in 0..Len(cmd.output)} :
                IsPrefixOf(P, cmd.output)

\* the lines written so far through one handle, in order
RECURSIVE Written(_, _)
Written(log, h) ==
    IF log = <<>> THEN <<>>
    ELSE (IF Head(log).h = h THEN Head(log).lines ELSE <<>>) \o Written(Tail(log), h)

\* the sequences of an input file as it was before the run
OrigSeqs(k) == FaRecords(orig[cmd.fasta[k]].lines)
OrigParses(k) == orig[cmd.fasta[k]].exists /\ FaOk(orig[cmd.fasta[k]].lines)

RECURSIVE ExpectedFa(_)
ExpectedFa(k) ==
    IF k > N THEN <<>>
    ELSE << <<">">> \o NameOf(cmd.fasta[k]), Join(OrigSeqs(k)) >> \o ExpectedFa(k + 1)

RowsOf(k) == [j \in 1..Len(OrigSeqs(k)) |->
                NameOf(cmd.fasta[k]) \o <<"\t">> \o PyStr(Len(OrigSeqs(k)[j]))]

RECURSIVE ExpectedTlen(_)
ExpectedTlen(k) == IF k > N THEN <<>> ELSE RowsOf(k) \o ExpectedTlen(k + 1)

\* an input path is also the path of an artifact the script opens for writing
Aliased == \E k \in 1..N : cmd.fasta[k] \in {PFa, PTlen, PPaf}

\* C1: when every input opens and parses, P.fa as the run leaves it holds one
\* entry per input file, in argument order, each the file's name and the
\* concatenation of the file's sequences in file order.
C1_Claim ==
    (pc = "done" /\ \A k \in 1..N : OrigParses(k))
        => fs[PFa].lines = ExpectedFa(1)

\* C1 holds of every run in which no input path is one of P.fa, P.tlen, P.paf
C1_Unaliased ==
    (pc = "done" /\ ~Aliased) => fs[PFa].lines = ExpectedFa(1)

\* C2: when every input opens and parses, P.tlen as the run leaves it holds one
\* name<TAB>length row per sequence of the inputs, file by file in argument
\* order and in file order within a file.
C2_Claim ==
    (pc = "done" /\ \A k \in 1..N : OrigParses(k))
        => fs[PTlen].lines = ExpectedTlen(1)

\* C2 holds of every run in which no input path is one of P.fa, P.tlen, P.paf
C2_Unaliased ==
    (pc = "done" /\ ~Aliased) => fs[PTlen].lines = ExpectedTlen(1)

\* C3: every entry header and every length row written for an input path
\* carries the path's basename cut at its first dot, whatever dots its
\* directories hold; and what the two handles wrote is what P.fa and P.tlen
\* hold, on disk or still buffered.
C3_Name ==
    /\ \A k \in 1..Len(wlog) :
        LET w == wlog[k]
            n == NameOf(cmd.fasta[w.i])
        IN  /\ w.h = "fa" => w.lines[1] = <<">">> \o n
            /\ w.h = "tlen" =>
                  /\ Len(w.lines[1]) > Len(n) + 1
                  /\ SubSeq(w.lines[1], 1, Len(n) + 1) = n \o <<"\t">>
    /\ pc \notin {"L30", "L31"} =>
          /\ fs[PFa].lines \o super_fasta = Written(wlog, "fa")
          /\ fs[PTlen].lines \o tlen = Written(wlog, "tlen")

C3_Witness ==
    /\ \E k \in 1..Len(wlog) :
          wlog[k].h = "fa" /\ Len(cmd.fasta[wlog[k].i]) = 9
          /\ wlog[k].lines[1] = <<">", "b">>
    /\ \E k \in 1..Len(wlog) :
          wlog[k].h = "tlen" /\ Len(cmd.fasta[wlog[k].i]) = 9
          /\ wlog[k].lines[1] = <<"b", "\t", "2">>

\* C4: the aligner is called at most once, exactly once when the run gets past
\* line 45, with <mapper> -x <mode> --no-long-join --dual=yes -P P.fa P.fa and
\* stdout on P.paf, P the output path up to its first dot; P.fa and P.tlen are
\* the files the preparer's handles wrote to.
C4_Aligner ==
    LET P == OutPrefix
        mapper == IF cmd.opts.mapper.given THEN cmd.opts.mapper.value
                  ELSE <<"minimap2">>
        mode == IF cmd.opts.mode.given THEN cmd.opts.mode.value ELSE <<"asm10">>
    IN  /\ IsPrefixOf(P, cmd.output)
        /\ Len(mapperCalls) <= 1
        /\ pc \in {"L46", "L48", "L63", "end", "done"} => Len(mapperCalls) = 1
        /\ \A k \in 1..Len(mapperCalls) :
            /\ mapperCalls[k].argv =
                  <<mapper, <<"-x">>, mode, <<"--no-long-join">>, <<"--dual=yes">>,
                    <<"-P">>, P \o <<Dot, "fa">>, P \o <<Dot, "fa">>>>
            /\ mapperCalls[k].stdout = P \o <<Dot, "paf">>
            /\ fs[P \o <<Dot, "fa">>].lines \o super_fasta = Written(wlog, "fa")
            /\ Len(Written(wlog, "fa")) = 2 * N

C4_Witness ==
    /\ Len(mapperCalls) = 1
    /\ mapperCalls[1].spawned
    /\ Len(cmd.output) = 7
    /\ mapperCalls[1].argv[7] = <<"d", ".", "fa">>

\* what the command line makes of one valued option: the value given, unless it
\* is empty; the default (d) when the option is not given
Forwarded(flag, o, d) ==
    IF o.given THEN (IF o.value = <<>> THEN <<>> ELSE <<flag, o.value>>) ELSE d

RendererHead ==
    <<cmd.minidotr, <<"-i">>, OutPrefix \o <<Dot, "paf">>, <<"-l">>,
      OutPrefix \o <<Dot, "tlen">>, <<"-o">>, cmd.output>>
    \o (IF cmd.opts.no_self THEN <<<<"--no-self">>>> ELSE <<>>)
    \o (IF cmd.opts.strip THEN <<<<"--strip">>>> ELSE <<>>)

ExpectedRendererArgv ==
    RendererHead
    \o Forwarded(<<"--title">>, cmd.opts.title, <<>>)
    \o Forwarded(<<"--width">>, cmd.opts.width, <<<<"--width">>, <<"20">>>>)
    \o Forwarded(<<"--thick">>, cmd.opts.thick, <<<<"--thick">>, <<"2">>>>)
    \o Forwarded(<<"--identity">>, cmd.opts.identity,
                 <<<<"--identity">>, <<"0", ".", "0">>>>)

\* an option and its value, if and only if it is on the command line
IfSupplied(flag, o) == IF o.given THEN <<flag, o.value>> ELSE <<>>

\* C5 as stated: the renderer gets -i P.paf -l P.tlen -o <output> and then each
\* of --no-self, --strip, --title, --width, --thick, --identity if and only if
\* it was supplied on the command line.
C5_Original ==
    \A k \in 1..Len(rendererCalls) :
        rendererCalls[k].argv =
            RendererHead
            \o IfSupplied(<<"--title">>, cmd.opts.title)
            \o IfSupplied(<<"--width">>, cmd.opts.width)
            \o IfSupplied(<<"--thick">>, cmd.opts.thick)
            \o IfSupplied(<<"--identity">>, cmd.opts.identity)

\* C5 amended: the renderer gets -i P.paf -l P.tlen -o <output>, then --no-self
\* and --strip if and only if supplied, --title <t> if and only if supplied
\* with a non-empty value, and --width, --thick, --identity with the value
\* supplied or, when not supplied, the defaults 20, 2 and 0.0; a valued option
\* supplied with an empty value is not forwarded.
C5_Forwarding ==
    \A k \in 1..Len(rendererCalls) : rendererCalls[k].argv = ExpectedRendererArgv

C5_Witness ==
    /\ Len(rendererCalls) = 1
    /\ cmd.opts.title = Given(<<"My Plot">>)
    /\ cmd.opts.no_self
    /\ ~cmd.opts.strip
    /\ ~cmd.opts.width.given
    /\ cmd.opts.thick.given
    /\ rendererCalls[1].argv = <<cmd.minidotr, <<"-i">>, <<"a", ".", "paf">>, <<"-l">>,
          <<"a", ".", "tlen">>, <<"-o">>, <<"a", ".", "pdf">>, <<"--no-self">>,
          <<"--title">>, <<"My Plot">>, <<"--width">>, <<"20">>, <<"--thick">>,
          <<"3">>, <<"--identity">>, <<"0", ".", "0">>>>

\* C6 as stated: a run that called the renderer exits with the renderer's status.
C6_Original ==
    pc = "done" => exit_code = rendererCalls[Len(rendererCalls)].status

\* C6 amended: a run whose renderer was started and returned exits with code 0,
\* whatever status the renderer returned.
C6_ExitZero ==
    pc = "done" =>
        /\ Len(rendererCalls) = 1
        /\ rendererCalls[1].spawned
        /\ exit_code = 0

C6_Witness == pc = "done" /\ rendererCalls[1].status = 2 /\ exit_code = 0

\* the run ended at line 35, on an input that does not open
InputFailed == pc = "aborted" /\ mapperCalls = <<>>

\* C7 as stated: when an input fails to open, P.fa and P.tlen hold nothing
\* written for earlier inputs and neither child process was called.
C7_Original ==
    InputFailed =>
        /\ ~fs[PFa].exists \/ fs[PFa].lines = <<>>
        /\ ~fs[PTlen].exists \/ fs[PTlen].lines = <<>>
        /\ rendererCalls = <<>>

\* C7 amended: when an input fails to open the run ends there with a non-zero
\* exit code; neither child process is called, and they are called only after
\* every input opened; nothing is written for the failing input or a later one;
\* P.fa and P.tlen are left behind, holding the entries and rows written for
\* the earlier inputs.
C7_Abort ==
    /\ InputFailed =>
        /\ rendererCalls = <<>>
        /\ exit_code = 1
        /\ i <= N
        /\ Len(rlog) = i - 1
        /\ \A k \in 1..Len(wlog) : wlog[k].i < i
        /\ fs[PFa].exists /\ fs[PFa].lines = Written(wlog, "fa")
        /\ fs[PTlen].exists /\ fs[PTlen].lines = Written(wlog, "tlen")
        /\ Len(fs[PFa].lines) = 2 * (i - 1)
    /\ (mapperCalls # <<>> \/ rendererCalls # <<>>) => Len(rlog) = N

C7_Witness ==
    /\ InputFailed
    /\ i = 2
    /\ fs[PFa].lines # <<>>
    /\ fs[PTlen].lines # <<>>

\* C8: preparer, aligner, renderer run in this order, each at most once; once
\* the aligner was started and returned, with any status, the run does not end
\* without one call of the renderer, with the arguments the command line alone
\* determines.
C8_Phases ==
    /\ Len(mapperCalls) <= 1
    /\ Len(rendererCalls) <= 1
    /\ mapperCalls # <<>> =>
          /\ Len(rlog) = N
          /\ Len(Written(wlog, "fa")) = 2 * N
          /\ tlen = <<>>
    /\ rendererCalls # <<>> => Len(mapperCalls) = 1 /\ mapperCalls[1].spawned
    /\ (pc \in {"end", "done", "aborted"} /\ mapperCalls # <<>>) =>
          (mapperCalls[1].spawned =>
              /\ Len(rendererCalls) = 1
              /\ rendererCalls[1].argv = ExpectedRendererArgv)

C8_Witness ==
    /\ pc = "done"
    /\ mapperCalls[1].status = 1
    /\ Len(rendererCalls) = 1
    /\ rendererCalls[1].spawned

\* C9: no artifact is written after its reader started, and P.fa is complete on
\* disk, nothing of it left in a buffer, when the aligner starts.
C9_Claim ==
    /\ lateWrites = {}
    /\ \A k \in 1..Len(mapperCalls) :
          mapperCalls[k].spawned => mapperCalls[k].unflushed = <<>>

\* the part of C9 that holds: P.tlen and P.paf are complete when the renderer
\* starts
C9_TlenPaf ==
    /\ PTlen \notin lateWrites
    /\ PPaf \notin lateWrites
    /\ rendererCalls # <<>> => tlen = <<>>

\* C10: every input file holds what it held before the run, and what was read
\* from it are its original sequences.
C10_Claim ==
    /\ \A k \in 1..N : fs[cmd.fasta[k]] = orig[cmd.fasta[k]]
    /\ \A k \in 1..Len(rlog) : rlog[k].seqs = OrigSeqs(rlog[k].i)

\* C10 holds of every run in which no input path is one of P.fa, P.tlen, P.paf
C10_Unaliased ==
    ~Aliased => 
        /\ \A k \in 1..N : fs[cmd.fasta[k]] = orig[cmd.fasta[k]]
        /\ \A k \in 1..Len(rlog) : rlog[k].seqs = OrigSeqs(rlog[k].i)

====
